---- MODULE Spec2Model ----
(***************************************************************************)
(* James-Bot: the /chat request pipeline of app_minimal.py (intent         *)
(* pre-filter, lexical matcher, response composer) and its conversation    *)
(* ledger (in-memory session map mirrored to one file per session).        *)
(*                                                                         *)
(* Text is a sequence of one-character strings, so that lower(), strip(),  *)
(* split() and the substring test `pattern in message` are computed as     *)
(* Python computes them.  Timestamps (start_time, last_activity,           *)
(* timestamp) and the derived lengths message_length / response_length     *)
(* are not part of the model's records.                                    *)
(***************************************************************************)
EXTENDS Integers, Sequences, FiniteSets, TLC

(***************************************************************************)
(* Bounds of the model.                                                    *)
(***************************************************************************)
\* POST /chat requests started over a whole behaviour (turn lists grow
\* without bound in the program).
MaxChats == 2

(***************************************************************************)
(* Text.                                                                   *)
(***************************************************************************)
UPPER == <<"A","B","C","D","E","F","G","H","I","J","K","L","M","N","O","P","Q","R","S","T","U","V","W","X","Y","Z">>
LOWER == <<"a","b","c","d","e","f","g","h","i","j","k","l","m","n","o","p","q","r","s","t","u","v","w","x","y","z">>

\* str.lower() on one character.
LowerChar(c) ==
    IF \E i \in 1..Len(UPPER) : UPPER[i] = c
    THEN LOWER[CHOOSE i \in 1..Len(UPPER) : UPPER[i] = c]
    ELSE c

\* str.lower()
lower(s) == [i \in 1..Len(s) |-> LowerChar(s[i])]

IsSpace(c) == c = " "

\* str.strip(): drop leading and trailing whitespace.
strip(s) ==
    LET keep == {i \in 1..Len(s) : ~IsSpace(s[i])}
    IN  IF keep = {} THEN <<>>
        ELSE LET first == CHOOSE i \in keep : \A j \in keep : i <= j
                 last  == CHOOSE i \in keep : \A j \in keep : j <= i
             IN  SubSeq(s, first, last)

\* `pattern in message` for two strings: substring containment.
Contains(pattern, message) ==
    \E i \in 1..(Len(message) - Len(pattern) + 1) :
        SubSeq(message, i, i + Len(pattern) - 1) = pattern

\* str.split(): the maximal runs of non-whitespace characters, in order.
split(s) ==
    LET starts == {i \in 1..Len(s) :
                      ~IsSpace(s[i]) /\ (i = 1 \/ IsSpace(s[i - 1]))}
        EndOf(i) == CHOOSE j \in i..Len(s) :
                      /\ \A k \in i..j : ~IsSpace(s[k])
                      /\ (j = Len(s) \/ IsSpace(s[j + 1]))
        RECURSIVE Words(_)
        Words(from) ==
            IF \A i \in starts : i < from THEN <<>>
            ELSE LET b == CHOOSE i \in starts :
                              i >= from /\ \A j \in starts : j >= from => i <= j
                 IN  <<SubSeq(s, b, EndOf(b))>> \o Words(EndOf(b) + 1)
    IN  Words(1)

\* set(words)
set(words) == {words[i] : i \in DOMAIN words}

(***************************************************************************)
(* Intent pre-filter: the fixed pattern lists of chat_endpoint.            *)
(***************************************************************************)
\* app_minimal.py:357  ['hello', 'hi', 'hey', 'good morning', 'good afternoon', 'good evening', 'greetings', 'howdy']
greeting_patterns ==
    << <<"h","e","l","l","o">>,
       <<"h","i">>,
       <<"h","e","y">>,
       <<"g","o","o","d"," ","m","o","r","n","i","n","g">>,
       <<"g","o","o","d"," ","a","f","t","e","r","n","o","o","n">>,
       <<"g","o","o","d"," ","e","v","e","n","i","n","g">>,
       <<"g","r","e","e","t","i","n","g","s">>,
       <<"h","o","w","d","y">> >>

\* app_minimal.py:358  ['thank you', 'thanks', 'appreciate it', 'thx', 'ty']
thanks_patterns ==
    << <<"t","h","a","n","k"," ","y","o","u">>,
       <<"t","h","a","n","k","s">>,
       <<"a","p","p","r","e","c","i","a","t","e"," ","i","t">>,
       <<"t","h","x">>,
       <<"t","y">> >>

\* app_minimal.py:359  ['bye', 'goodbye', 'see you', 'farewell', 'take care', 'later', 'ttyl']
goodbye_patterns ==
    << <<"b","y","e">>,
       <<"g","o","o","d","b","y","e">>,
       <<"s","e","e"," ","y","o","u">>,
       <<"f","a","r","e","w","e","l","l">>,
       <<"t","a","k","e"," ","c","a","r","e">>,
       <<"l","a","t","e","r">>,
       <<"t","t","y","l">> >>

\* app_minimal.py:360  ['help', 'what can you do', 'what do you know', 'how does this work']
help_patterns ==
    << <<"h","e","l","p">>,
       <<"w","h","a","t"," ","c","a","n"," ","y","o","u"," ","d","o">>,
       <<"w","h","a","t"," ","d","o"," ","y","o","u"," ","k","n","o","w">>,
       <<"h","o","w"," ","d","o","e","s"," ","t","h","i","s"," ","w","o","r","k">> >>

\* app_minimal.py:361  ['who are you', 'what are you', 'tell me about yourself', 'introduce yourself']
who_patterns ==
    << <<"w","h","o"," ","a","r","e"," ","y","o","u">>,
       <<"w","h","a","t"," ","a","r","e"," ","y","o","u">>,
       <<"t","e","l","l"," ","m","e"," ","a","b","o","u","t"," ","y","o","u","r","s","e","l","f">>,
       <<"i","n","t","r","o","d","u","c","e"," ","y","o","u","r","s","e","l","f">> >>

\* Request messages the model draws from.
msg_hello == <<"h","e","l","l","o">>  \* 'hello'
msg_Hi_there == <<" ","H","i"," ","t","h","e","r","e">>  \* ' Hi there'
msg_good_morning == <<"G","o","o","d"," ","m","o","r","n","i","n","g">>  \* 'Good morning'
msg_thanks == <<"t","h","a","n","k","s">>  \* 'thanks'
msg_thank_you == <<"t","h","a","n","k"," ","y","o","u">>  \* 'thank you'
msg_bye == <<"b","y","e">>  \* 'bye'
msg_see_you == <<"s","e","e"," ","y","o","u"," ","t","o","m","o","r","r","o","w">>  \* 'see you tomorrow'
msg_help == <<"h","e","l","p">>  \* 'help'
msg_what_can_you_do == <<"w","h","a","t"," ","c","a","n"," ","y","o","u"," ","d","o">>  \* 'what can you do'
msg_who_are_you == <<"w","h","o"," ","a","r","e"," ","y","o","u">>  \* 'who are you'
msg_introduce == <<"i","n","t","r","o","d","u","c","e"," ","y","o","u","r","s","e","l","f">>  \* 'introduce yourself'
msg_how_does_this_work == <<"h","o","w"," ","d","o","e","s"," ","t","h","i","s"," ","w","o","r","k">>  \* 'how does this work'
msg_ttyl == <<"t","t","y","l">>  \* 'ttyl'
msg_hello_thanks == <<"h","e","l","l","o"," ","t","h","a","n","k","s">>  \* 'hello thanks'
msg_bye_help == <<"b","y","e"," ","h","e","l","p">>  \* 'bye help'
msg_role == <<"W","h","a","t"," ","i","s"," ","y","o","u","r"," ","c","u","r","r","e","n","t"," ","r","o","l","e">>  \* 'What is your current role'
msg_james == <<"w","h","o"," ","i","s"," ","j","a","m","e","s">>  \* 'who is james'
msg_pizza == <<"p","i","z","z","a">>  \* 'pizza'
msg_blank == <<" "," ">>  \* '  '


\* any(pattern in message for pattern in patterns)
AnyPattern(patterns, message) ==
    \E i \in DOMAIN patterns : Contains(patterns[i], message)

PatternsOf(category) ==
    CASE category = "greeting" -> greeting_patterns
      [] category = "thanks"   -> thanks_patterns
      [] category = "goodbye"  -> goodbye_patterns
      [] category = "help"     -> help_patterns
      [] category = "who"      -> who_patterns

Categories == {"greeting", "thanks", "goodbye", "help", "who"}

\* The chain with its first two branches exchanged.
CheckOrder_ThanksFirst == <<"thanks", "greeting", "goodbye", "help", "who">>

\* The order of the if / elif chain of chat_endpoint.
CheckOrder == <<"greeting", "thanks", "goodbye", "help", "who">>

\* The first category of `order` one of whose patterns occurs in `message`
\* ("none" when the chain falls through to retrieval).
RECURSIVE FirstMatch(_, _)
FirstMatch(order, message) ==
    IF order = <<>> THEN "none"
    ELSE IF AnyPattern(PatternsOf(Head(order)), message) THEN Head(order)
    ELSE FirstMatch(Tail(order), message)

\* The chain without its greeting branch.
Intent_NoGreetingBranch(message) == FirstMatch(Tail(CheckOrder), message)

\* The branch chat_endpoint takes for the lowercased, trimmed message.
Intent(message) == FirstMatch(CheckOrder, message)

\* The canned reply of each branch (the texts are named, not spelled out).
CannedResponse(category) ==
    CASE category = "greeting" -> "greeting_response"
      [] category = "thanks"   -> "thanks_response"
      [] category = "goodbye"  -> "goodbye_response"
      [] category = "help"     -> "help_response"
      [] category = "who"      -> "intro_response"

UnavailableReply == "AI assistant is currently unavailable"
fallback_response == "I don't have specific information about that"
error_response == "I'm experiencing technical difficulties"
\* resp.choices[0].message.content.strip(): whatever the model answered.
CompletionText == "completion text"

(***************************************************************************)
(* Knowledge base and lexical matcher.                                     *)
(***************************************************************************)
q_role == <<"W","h","a","t"," ","i","s"," ","y","o","u","r"," ","c","u","r","r","e","n","t"," ","r","o","l","e","?">>
q_who == <<"W","h","o"," ","i","s"," ","J","a","m","e","s"," ","B","e","l","l","?">>

\* james_qa.json as loaded by load_qa: the entry of the spec's end-to-end
\* scenario, then the placeholder entry load_qa falls back to.
DefaultQA ==
    << [question |-> q_role, answer |-> "Concierge Security Engineer."],
       [question |-> q_who,  answer |-> "James Bell is a Concierge Security Engineer 3 & Team Lead at Arctic Wolf."] >>

None == <<>>
Some(x) == <<x>>

\* The overlap without lowercasing the question.
Overlap_CaseSensitive(qa, message) ==
    Cardinality(set(split(qa.question)) \cap set(split(message)))

\* overlap = len(set(question_words) & set(message_words))
Overlap(qa, message) ==
    Cardinality(set(split(lower(qa.question))) \cap set(split(message)))

\* The loop over qa_pairs: `best` is (best_match, best_score) so far.
RECURSIVE MatchFrom(_, _, _, _)
MatchFrom(qa, i, message, best) ==
    IF i > Len(qa) THEN best
    ELSE LET overlap == Overlap(qa[i], message)
         IN  IF overlap > best.best_score
             THEN MatchFrom(qa, i + 1, message,
                            [best_match |-> Some(qa[i]), best_score |-> overlap])
             ELSE MatchFrom(qa, i + 1, message, best)

\* The loop replacing the best entry on an equal score as well.
RECURSIVE MatchFrom_LastWins(_, _, _, _)
MatchFrom_LastWins(qa, i, message, best) ==
    IF i > Len(qa) THEN best
    ELSE LET overlap == Overlap(qa[i], message)
         IN  IF overlap >= best.best_score
             THEN MatchFrom_LastWins(qa, i + 1, message,
                                     [best_match |-> Some(qa[i]), best_score |-> overlap])
             ELSE MatchFrom_LastWins(qa, i + 1, message, best)

BestMatch_LastWins(qa, message) ==
    MatchFrom_LastWins(qa, 1, message, [best_match |-> None, best_score |-> 0])

BestMatch(qa, message) ==
    MatchFrom(qa, 1, message, [best_match |-> None, best_score |-> 0])

(***************************************************************************)
(* Callers and session identifiers.                                        *)
(***************************************************************************)
IPs == {"10.0.0.1", "10.0.0.2"}
UserAgents == {"Mozilla/5.0"}
Days == {"20261105"}

\* The callers and days of the runs that cross midnight; "" is the user
\* agent of a request without the header.
AllUserAgents == {"Mozilla/5.0", ""}
AllDays == {"20261105", "20261106"}

\* The identifier computed without the date.
get_session_id_NoDay(ip, user_agent, day) ==
    CASE <<ip, user_agent>> = <<"10.0.0.1", "Mozilla/5.0">> -> "193f01eb11b1"
      [] <<ip, user_agent>> = <<"10.0.0.2", "Mozilla/5.0">> -> "b38ac89f3dca"
      [] <<ip, user_agent>> = <<"10.0.0.1", "">> -> "e367c84a5b66"
      [] <<ip, user_agent>> = <<"10.0.0.2", "">> -> "977382aa94f1"

\* hashlib.md5(f"{ip}_{user_agent}_{day}".encode()).hexdigest()[:12],
\* tabulated for the callers and days of the model.
get_session_id(ip, user_agent, day) ==
    CASE <<ip, user_agent, day>> = <<"10.0.0.1", "Mozilla/5.0", "20261105">> -> "193f01eb11b1"
      [] <<ip, user_agent, day>> = <<"10.0.0.2", "Mozilla/5.0", "20261105">> -> "b38ac89f3dca"
      [] <<ip, user_agent, day>> = <<"10.0.0.1", "Mozilla/5.0", "20261106">> -> "5f90f21bf3ee"
      [] <<ip, user_agent, day>> = <<"10.0.0.2", "Mozilla/5.0", "20261106">> -> "f8b69e52371d"
      [] <<ip, user_agent, day>> = <<"10.0.0.1", "", "20261105">> -> "e367c84a5b66"
      [] <<ip, user_agent, day>> = <<"10.0.0.2", "", "20261105">> -> "977382aa94f1"
      [] <<ip, user_agent, day>> = <<"10.0.0.1", "", "20261106">> -> "0dbd99df02f4"
      [] <<ip, user_agent, day>> = <<"10.0.0.2", "", "20261106">> -> "9e7493f270e0"

SessionIds == {get_session_id(ip, ua, d) : ip \in IPs, ua \in UserAgents, d \in Days}

(***************************************************************************)
(* State.                                                                  *)
(***************************************************************************)
VARIABLES
    client,          \* TRUE iff OpenAI() succeeded at start-up (client is not None)
    qa_pairs,        \* the knowledge entries loaded at start-up
    today,           \* datetime.now().strftime('%Y%m%d')
    conversations,   \* session_id -> session, the in-memory ledger
    files,           \* session_id -> content of conversation_logs/session_<id>.json
    analytics_data,  \* the counters; the two event lists by their lengths
    req,             \* per worker thread: the request it is serving
    started,         \* POST /chat requests started so far (bounded by MaxChats)
    hist,            \* per session, what has happened to it since it was last
                     \* absent from memory and disk (history, read by no action)
    qa_embeddings,   \* app.py: the vectors of the knowledge entries ([] = not ready)
    sem              \* app.py: the start-up (thread 0) and the threads serving /chat

vars == <<client, qa_pairs, today, conversations, files, analytics_data, req, started, hist,
          qa_embeddings, sem>>

\* The worker threads that serve requests concurrently.
Handlers == {1, 2}

\* A file opened with 'w' and not yet written (or written in part): not JSON.
TRUNCATED == [truncated |-> TRUE]

Idle ==
    [pc |-> "idle", op |-> "none", ip |-> "", user_agent |-> "",
     session_id |-> "", message |-> <<>>, reply |-> "", terminal |-> "",
     in_except |-> FALSE, turn |-> None, conversation_data |-> None,
     unlinked |-> FALSE, logged |-> {}, retrieval_calls |-> 0,
     completion_calls |-> 0, pre |-> None, result |-> None,
     best |-> None, context |-> None,
     raised |-> {}, appends |-> 0, write_failed |-> FALSE, day |-> ""]

\* app.py: thread 0 is the import of the module (the start-up), the others
\* serve POST /chat.
SemThreads == {0} \cup Handlers

\* A thread of app.py that serves nothing: `embeddings` and `i` are the locals
\* of compute_embeddings, corpus_calls and ready_at_check record what the
\* request did and batches the inputs it gave to client.embeddings.create for
\* the corpus (history, read by no action).
SemIdle ==
    [pc |-> "idle", query |-> "", embeddings |-> <<>>, i |-> 0,
     query_emb |-> None, top_items |-> None, outcome |-> "",
     corpus_calls |-> 0, ready_at_check |-> FALSE, batches |-> <<>>]

\* analytics_data as initialised at import.
FreshAnalytics ==
    [page_views |-> 0, chat_interactions |-> 0, resume_downloads |-> 0,
     visitors |-> 0, chat_sessions |-> 0]

\* No response is waiting to be handed back.  Handing a response back touches
\* no shared state, so it is taken before any other thread's next step.
Quiet == \A h \in Handlers : req[h].pc # "done"

\* The handler has its response: locals are dropped.
Done(r) ==
    [r EXCEPT !.pc = "done", !.turn = None, !.conversation_data = None,
              !.unlinked = FALSE]

\* The positions inside log_conversation (save_conversation_to_file included).
LogPcs ==
    {"log43", "log44", "log55", "log63", "log64", "log65",
     "save80", "save81", "save84", "save93", "save94"}

\* The thread is inside log_conversation(session_id, ...).
InLog(r, session_id) == r.pc \in LogPcs /\ r.session_id = session_id

\* calls:   log_conversation calls begun for the session since it was last
\*          deleted (or the process started);
\* overlap: two of these calls ran at the same time;
\* cut:     a delete for the session ran during one of them;
\* fault:   a write or a removal of its file failed;
\* stale:   a restart emptied the memory while its file stayed;
\* marred:  that file had seen an overlap, a cut or a fault before the restart.
FreshHistory ==
    [calls |-> 0, overlap |-> FALSE, cut |-> FALSE, fault |-> FALSE, stale |-> FALSE,
     marred |-> FALSE]

\* The history after a step of a /chat request: a thread that arrives at
\* line 43 begins a call; `failed` is the session whose file write failed.
Track(failed) ==
    hist' = [s \in SessionIds |->
               LET begun == {h \in Handlers :
                                /\ req'[h].pc = "log43"
                                /\ req[h].pc # "log43"
                                /\ req'[h].session_id = s}
                   h1 == [hist[s] EXCEPT !.fault = @ \/ s \in failed]
               IN  IF begun = {} THEN h1
                   ELSE [h1 EXCEPT
                           !.calls = @ + 1,
                           !.overlap = @ \/ \E g \in Handlers \ begun : InLog(req[g], s)]]

Init ==
    /\ client \in BOOLEAN
    /\ qa_pairs = DefaultQA
    /\ today \in Days
    /\ conversations = <<>>
    /\ files = <<>>
    /\ analytics_data = FreshAnalytics
    /\ req = [h \in Handlers |-> Idle]
    /\ started = 0
    /\ hist = [s \in SessionIds |-> FreshHistory]
    /\ qa_embeddings = <<>>
    /\ sem = [t \in SemThreads |-> SemIdle]

(***************************************************************************)
(* POST /chat: chat_endpoint up to its first call that other threads can   *)
(* interleave with.                                                        *)
(***************************************************************************)
\* The routing without the `if not client` return of lines 349-351.
Route_WithoutClientCheck(is_client, qa, text) ==
    LET message == strip(lower(text))
        intent  == Intent(message)
        best    == BestMatch(qa, message)
    IN  IF intent # "none" THEN
            [terminal |-> "Intent", reply |-> CannedResponse(intent),
             retrieval |-> 0, next |-> "log43", best |-> None, context |-> None]
        ELSE IF best.best_match # None /\ best.best_score > 0 THEN
            [terminal |-> "Matched", reply |-> "",
             retrieval |-> 1, next |-> "completion",
             best |-> Some(best), context |-> best.best_match]
        ELSE
            [terminal |-> "NoMatch", reply |-> fallback_response,
             retrieval |-> 1, next |-> "log43",
             best |-> Some(best), context |-> None]

\* The terminal state the request heads for, from `if not client` through the
\* intent chain and the matcher.
Route(is_client, qa, text) ==
    LET message == strip(lower(text))
        intent  == Intent(message)
        best    == BestMatch(qa, message)
    IN  IF ~is_client THEN
            [terminal |-> "Unavailable", reply |-> UnavailableReply,
             retrieval |-> 0, next |-> "done", best |-> None, context |-> None]
        ELSE IF intent # "none" THEN
            [terminal |-> "Intent", reply |-> CannedResponse(intent),
             retrieval |-> 0, next |-> "log43", best |-> None, context |-> None]
        ELSE IF best.best_match # None /\ best.best_score > 0 THEN
            [terminal |-> "Matched", reply |-> "",
             retrieval |-> 1, next |-> "completion",
             best |-> Some(best), context |-> best.best_match]
        ELSE
            [terminal |-> "NoMatch", reply |-> fallback_response,
             retrieval |-> 1, next |-> "log43",
             best |-> Some(best), context |-> None]

ChatBegin(h, ip, ua, text) ==
    /\ Quiet
    /\ req[h].pc = "idle"
    /\ started < MaxChats
    /\ started' = started + 1
    /\ analytics_data' = [analytics_data EXCEPT
                             !.chat_interactions = @ + 1,
                             !.chat_sessions = @ + 1]
    /\ LET route == Route(client, qa_pairs, text)
           r == [Idle EXCEPT !.op = "chat", !.ip = ip, !.user_agent = ua,
                             !.session_id = get_session_id(ip, ua, today),
                             !.day = today,
                             !.message = text,
                             !.reply = route.reply,
                             !.terminal = route.terminal,
                             !.retrieval_calls = route.retrieval,
                             !.best = route.best,
                             !.context = route.context,
                             !.pc = route.next]
       IN  req' = [req EXCEPT ![h] = r]
    /\ UNCHANGED <<client, qa_pairs, qa_embeddings, sem, today, conversations, files>>
    /\ Track({})

\* The except clause without its log_conversation call.
Raise_WithoutRecord(r) ==
    Done([r EXCEPT !.in_except = TRUE, !.reply = error_response,
                   !.terminal = "Failure"])

\* An exception raised inside the try block of chat_endpoint: the except
\* clause sets error_response and logs it; an exception raised by that second
\* log_conversation is passed over.
Raise(r) ==
    IF r.in_except
    THEN Done(r)
    ELSE [r EXCEPT !.in_except = TRUE, !.reply = error_response,
                   !.terminal = "Failure", !.pc = "log43",
                   !.turn = None, !.conversation_data = None]

\* The completion call tried again when it raises.
Completion_Retries(h, ok) ==
    /\ Quiet
    /\ req[h].pc = "completion"
    /\ LET r == [req[h] EXCEPT !.completion_calls = @ + 1]
       IN  req' = [req EXCEPT ![h] =
                      IF ok THEN [r EXCEPT !.reply = CompletionText, !.pc = "log43"]
                      ELSE r]
    /\ UNCHANGED <<client, qa_pairs, qa_embeddings, sem, today, conversations, files, analytics_data, started>>
    /\ Track({})

\* client.chat.completions.create(...) and the read of its content.
Completion(h, ok) ==
    /\ Quiet
    /\ req[h].pc = "completion"
    /\ LET r == [req[h] EXCEPT !.completion_calls = @ + 1]
       IN  req' = [req EXCEPT ![h] =
                      IF ok THEN [r EXCEPT !.reply = CompletionText, !.pc = "log43"]
                      ELSE Raise([r EXCEPT !.raised = @ \cup {"completion"}])]
    /\ UNCHANGED <<client, qa_pairs, qa_embeddings, sem, today, conversations, files, analytics_data, started>>
    /\ Track({})

(***************************************************************************)
(* log_conversation, one step per statement that reads or writes the       *)
(* shared session map: threads can be switched between them.               *)
(***************************************************************************)
\* The session created with its count at 1.
NewSession_CountedOne(r) ==
    [session_id |-> r.session_id, ip_address |-> r.ip, user_agent |-> r.user_agent,
     conversation_turns |-> <<>>, total_messages |-> 1]

\* The session as lines 44-51 create it.
NewSession(r) ==
    [session_id |-> r.session_id, ip_address |-> r.ip, user_agent |-> r.user_agent,
     conversation_turns |-> <<>>, total_messages |-> 0]

\* if session_id not in conversations:
Log43(h) ==
    /\ Quiet
    /\ req[h].pc = "log43"
    /\ req' = [req EXCEPT ![h].pc =
                  IF req[h].session_id \in DOMAIN conversations THEN "log55" ELSE "log44"]
    /\ UNCHANGED <<client, qa_pairs, qa_embeddings, sem, today, conversations, files, analytics_data, started>>
    /\ Track({})

\* The session created by rebinding the whole map: conversations = {id: {...}}.
Log44_RebindsMap(h) ==
    /\ Quiet
    /\ req[h].pc = "log44"
    /\ conversations' = (req[h].session_id :> NewSession(req[h]))
    /\ req' = [req EXCEPT ![h].pc = "log55"]
    /\ UNCHANGED <<client, qa_pairs, qa_embeddings, sem, today, files, analytics_data, started>>
    /\ Track({})

\* conversations[session_id] = {...}
Log44(h) ==
    /\ Quiet
    /\ req[h].pc = "log44"
    /\ conversations' = (req[h].session_id :> NewSession(req[h])) @@ conversations
    /\ req' = [req EXCEPT ![h].pc = "log55"]
    /\ UNCHANGED <<client, qa_pairs, qa_embeddings, sem, today, files, analytics_data, started>>
    /\ Track({})

\* The turn record numbered from the length alone (turn numbers from 0).
NewTurn_FromZero(r, session) ==
    [turn_number |-> Len(session.conversation_turns),
     user_message |-> r.message,
     bot_response |-> r.reply]

\* The turn record built from the session's current length.
NewTurn(r, session) ==
    [turn_number |-> Len(session.conversation_turns) + 1,
     user_message |-> r.message,
     bot_response |-> r.reply]

\* turn = {"turn_number": len(conversations[session_id][...]) + 1, ...}
Log55(h) ==
    /\ Quiet
    /\ req[h].pc = "log55"
    /\ req' = [req EXCEPT ![h] =
                  IF req[h].session_id \in DOMAIN conversations
                  THEN [req[h] EXCEPT
                           !.turn = Some(NewTurn(req[h], conversations[req[h].session_id])),
                           !.pc = "log63"]
                  ELSE Raise([req[h] EXCEPT !.raised = @ \cup {"record"}])]   \* KeyError: deleted meanwhile
    /\ UNCHANGED <<client, qa_pairs, qa_embeddings, sem, today, conversations, files, analytics_data, started>>
    /\ Track({})

\* conversations[session_id]["conversation_turns"].append(turn)
Log63(h) ==
    /\ Quiet
    /\ req[h].pc = "log63"
    /\ IF req[h].session_id \in DOMAIN conversations
       THEN /\ conversations' =
                  [conversations EXCEPT ![req[h].session_id].conversation_turns =
                      Append(@, req[h].turn[1])]
            /\ req' = [req EXCEPT ![h].pc = "log64",
                                  ![h].logged = @ \cup {req[h].reply},
                                  ![h].appends = @ + 1]
       ELSE /\ req' = [req EXCEPT ![h] = Raise([req[h] EXCEPT !.raised = @ \cup {"record"}])]
            /\ UNCHANGED conversations
    /\ UNCHANGED <<client, qa_pairs, qa_embeddings, sem, today, files, analytics_data, started>>
    /\ Track({})

\* conversations[session_id]["total_messages"] += 1
Log64(h) ==
    /\ Quiet
    /\ req[h].pc = "log64"
    /\ IF req[h].session_id \in DOMAIN conversations
       THEN /\ conversations' =
                  [conversations EXCEPT ![req[h].session_id].total_messages = @ + 1]
            /\ req' = [req EXCEPT ![h].pc = "log65"]
       ELSE /\ req' = [req EXCEPT ![h] = Raise([req[h] EXCEPT !.raised = @ \cup {"record"}])]
            /\ UNCHANGED conversations
    /\ UNCHANGED <<client, qa_pairs, qa_embeddings, sem, today, files, analytics_data, started>>
    /\ Track({})

\* conversations[session_id]["last_activity"] = ...   (only its KeyError shows)
Log65(h) ==
    /\ Quiet
    /\ req[h].pc = "log65"
    /\ req' = [req EXCEPT ![h] =
                  IF req[h].session_id \in DOMAIN conversations
                  THEN [req[h] EXCEPT !.pc = "save80"]
                  ELSE Raise([req[h] EXCEPT !.raised = @ \cup {"record"}])]
    /\ UNCHANGED <<client, qa_pairs, qa_embeddings, sem, today, conversations, files, analytics_data, started>>
    /\ Track({})

(***************************************************************************)
(* save_conversation_to_file: every exception is caught and logged, and    *)
(* log_conversation then returns normally.                                 *)
(***************************************************************************)
\* The record written without the turns loaded from the file.
Merge_DropsLoaded(conversation_data, turn) ==
    [conversation_data EXCEPT
        !.conversation_turns = <<turn>>,
        !.total_messages = 1]

\* What the file will hold: the loaded or fresh record with the turn merged.
Merge(conversation_data, turn) ==
    [conversation_data EXCEPT
        !.conversation_turns = Append(@, turn),
        !.total_messages = Len(conversation_data.conversation_turns) + 1]

\* if os.path.exists(filename):
Save80(h) ==
    /\ Quiet
    /\ req[h].pc = "save80"
    /\ req' = [req EXCEPT ![h].pc =
                  IF req[h].session_id \in DOMAIN files THEN "save81" ELSE "save84"]
    /\ UNCHANGED <<client, qa_pairs, qa_embeddings, sem, today, conversations, files, analytics_data, started>>
    /\ Track({})

\* open(filename, 'r'); json.load(f) -- then the merge, which is local.
Save81(h) ==
    /\ Quiet
    /\ req[h].pc = "save81"
    /\ LET sid == req[h].session_id
       IN  req' = [req EXCEPT ![h] =
                      IF sid \in DOMAIN files /\ files[sid] # TRUNCATED
                      THEN [req[h] EXCEPT
                               !.conversation_data = Some(Merge(files[sid], req[h].turn[1])),
                               !.pc = "save93"]
                      ELSE Done([req[h] EXCEPT !.write_failed = TRUE])]   \* FileNotFoundError, JSONDecodeError
    /\ UNCHANGED <<client, qa_pairs, qa_embeddings, sem, today, conversations, files, analytics_data, started>>
    /\ Track({})

\* conversation_data = conversations[session_id].copy(), its turns emptied
Save84(h) ==
    /\ Quiet
    /\ req[h].pc = "save84"
    /\ LET sid == req[h].session_id
       IN  req' = [req EXCEPT ![h] =
                      IF sid \in DOMAIN conversations
                      THEN [req[h] EXCEPT
                               !.conversation_data =
                                   Some(Merge([conversations[sid] EXCEPT
                                                  !.conversation_turns = <<>>],
                                              req[h].turn[1])),
                               !.pc = "save93"]
                      ELSE Done([req[h] EXCEPT !.write_failed = TRUE])]   \* KeyError
    /\ UNCHANGED <<client, qa_pairs, qa_embeddings, sem, today, conversations, files, analytics_data, started>>
    /\ Track({})

\* save_conversation_to_file without its try / except: the OSError of open
\* reaches chat_endpoint.
Save93_Raises(h, ok) ==
    /\ Quiet
    /\ req[h].pc = "save93"
    /\ IF ok
       THEN /\ files' = (req[h].session_id :> TRUNCATED) @@ files
            /\ req' = [req EXCEPT ![h].pc = "save94"]
       ELSE /\ req' = [req EXCEPT ![h] = Raise([req[h] EXCEPT !.write_failed = TRUE])]
            /\ UNCHANGED files
    /\ UNCHANGED <<client, qa_pairs, qa_embeddings, sem, today, conversations, analytics_data, started>>
    /\ Track(IF ok THEN {} ELSE {req[h].session_id})

\* open(filename, 'w'): the file is created or cut to nothing; ok = FALSE is
\* an OSError (also that of os.makedirs), which leaves the file as it was.
Save93(h, ok) ==
    /\ Quiet
    /\ req[h].pc = "save93"
    /\ IF ok
       THEN /\ files' = (req[h].session_id :> TRUNCATED) @@ files
            /\ req' = [req EXCEPT ![h].pc = "save94"]
       ELSE /\ req' = [req EXCEPT ![h] = Done([req[h] EXCEPT !.write_failed = TRUE])]
            /\ UNCHANGED files
    /\ UNCHANGED <<client, qa_pairs, qa_embeddings, sem, today, conversations, analytics_data, started>>
    /\ Track(IF ok THEN {} ELSE {req[h].session_id})

\* json.dump(conversation_data, f) and the close that flushes it; ok = FALSE
\* is a failed write, which leaves the file without the record.  A file that
\* was removed while open stays removed: the write goes to the unlinked file.
\* (Bytes of a longer record another thread wrote since the open would
\* survive past the end of this one; the model keeps the record written last.)
Save94(h, ok) ==
    /\ Quiet
    /\ req[h].pc = "save94"
    /\ files' = IF ok /\ ~req[h].unlinked
                THEN (req[h].session_id :> req[h].conversation_data[1]) @@ files
                ELSE files
    /\ req' = [req EXCEPT ![h] = Done([req[h] EXCEPT !.write_failed = ~ok])]
    /\ UNCHANGED <<client, qa_pairs, qa_embeddings, sem, today, conversations, analytics_data, started>>
    /\ Track(IF ok THEN {} ELSE {req[h].session_id})

\* The response is handed back to the caller; the thread is free again.
Respond(h) ==
    /\ req[h].pc = "done"
    /\ req' = [req EXCEPT ![h] = Idle]
    /\ UNCHANGED <<client, qa_pairs, qa_embeddings, sem, today, conversations, files, analytics_data, started, hist>>

(***************************************************************************)
(* GET and DELETE /conversations/{session_id}.                             *)
(***************************************************************************)
NotFound == [error |-> "Conversation not found"]
LoadFailed == [error |-> "Failed to load conversation"]

\* get_conversation reading the file before the memory.
get_conversation_FileFirst(session_id) ==
    IF session_id \in DOMAIN files
    THEN IF files[session_id] # TRUNCATED THEN files[session_id]
         ELSE LoadFailed
    ELSE IF session_id \in DOMAIN conversations THEN conversations[session_id]
    ELSE NotFound

\* get_conversation: what it returns in the current state.
get_conversation(session_id) ==
    IF session_id \in DOMAIN conversations THEN conversations[session_id]
    ELSE IF session_id \in DOMAIN files
         THEN IF files[session_id] # TRUNCATED THEN files[session_id]
              ELSE LoadFailed   \* json.load raises
    ELSE NotFound

Get(h, session_id) ==
    /\ Quiet
    /\ req[h].pc = "idle"
    /\ req' = [req EXCEPT ![h] =
                  [Idle EXCEPT !.op = "get", !.session_id = session_id,
                               !.result = Some(get_conversation(session_id)),
                               !.pc = "done"]]
    /\ UNCHANGED <<client, qa_pairs, qa_embeddings, sem, today, conversations, files, analytics_data, started, hist>>

Deleted == [message |-> "Conversation deleted successfully"]
DeleteFailed == [error |-> "Failed to delete conversation file"]
NotFoundOrDeleted == [message |-> "Conversation not found or already deleted"]

Without(f, key) == [k \in DOMAIN f \ {key} |-> f[k]]

\* What delete_conversation returns: ok = FALSE is os.remove raising.
delete_result(session_id, ok) ==
    IF session_id \in DOMAIN files
    THEN IF ok THEN Deleted ELSE DeleteFailed
    ELSE NotFoundOrDeleted

\* delete_conversation without the `del conversations[session_id]`.
memory_after_delete_Kept(session_id) == conversations

\* if session_id in conversations: del conversations[session_id]
memory_after_delete(session_id) == Without(conversations, session_id)

\* if os.path.exists(filename): os.remove(filename)
files_after_delete(session_id, ok) ==
    IF ok THEN Without(files, session_id) ELSE files

Delete(h, session_id, ok) ==
    /\ Quiet
    /\ req[h].pc = "idle"
    /\ conversations' = memory_after_delete(session_id)
    /\ files' = files_after_delete(session_id, ok)
    /\ req' = [g \in Handlers |->
                 IF g = h
                 THEN [Idle EXCEPT !.op = "delete", !.session_id = session_id,
                                   !.pre = Some([in_memory |-> session_id \in DOMAIN conversations,
                                                 on_disk |-> session_id \in DOMAIN files]),
                                   !.result = Some(delete_result(session_id, ok)),
                                   !.pc = "done"]
                 ELSE IF /\ ok
                         /\ req[g].pc = "save94"
                         /\ req[g].session_id = session_id
                      THEN [req[g] EXCEPT !.unlinked = TRUE]
                      ELSE req[g]]
    /\ hist' = [hist EXCEPT ![session_id] =
                  IF \E g \in Handlers : InLog(req[g], session_id)
                  THEN [@ EXCEPT !.calls = 0, !.cut = TRUE,
                                 !.fault = @ \/ (~ok /\ session_id \in DOMAIN files)]
                  ELSE [FreshHistory EXCEPT
                           !.fault = ~ok /\ session_id \in DOMAIN files,
                           !.stale = ~ok /\ hist[session_id].stale]]
    /\ UNCHANGED <<client, qa_pairs, qa_embeddings, sem, today, analytics_data, started>>

(***************************************************************************)
(* The process is restarted: module state is initialised again, requests   *)
(* in flight are lost, the files stay.                                     *)
(***************************************************************************)
Restart ==
    /\ client' \in BOOLEAN
    /\ conversations' = <<>>
    /\ analytics_data' = FreshAnalytics
    /\ req' = [h \in Handlers |-> Idle]
    /\ hist' = [s \in SessionIds |->
                  [FreshHistory EXCEPT
                      !.stale = s \in DOMAIN files,
                      !.marred = /\ s \in DOMAIN files
                                 /\ \/ hist[s].overlap \/ hist[s].cut
                                    \/ hist[s].fault \/ hist[s].marred
                                    \/ \E h \in Handlers : InLog(req[h], s)]]
    /\ UNCHANGED <<qa_pairs, qa_embeddings, sem, today, files, started>>

\* The messages sent to POST /chat in Spec: a greeting, a question the
\* knowledge base matches, one it does not.
ChatMessages == {msg_Hi_there, msg_role, msg_pizza}

Next ==
    \/ \E h \in Handlers, ip \in IPs, ua \in UserAgents, text \in ChatMessages :
          ChatBegin(h, ip, ua, text)
    \/ \E h \in Handlers, ok \in BOOLEAN : Completion(h, ok)
    \/ \E h \in Handlers : Log43(h)
    \/ \E h \in Handlers : Log44(h)
    \/ \E h \in Handlers : Log55(h)
    \/ \E h \in Handlers : Log63(h)
    \/ \E h \in Handlers : Log64(h)
    \/ \E h \in Handlers : Log65(h)
    \/ \E h \in Handlers : Save80(h)
    \/ \E h \in Handlers : Save81(h)
    \/ \E h \in Handlers : Save84(h)
    \/ \E h \in Handlers, ok \in BOOLEAN : Save93(h, ok)
    \/ \E h \in Handlers, ok \in BOOLEAN : Save94(h, ok)
    \/ \E h \in Handlers : Respond(h)
    \/ \E h \in Handlers, s \in SessionIds : Get(h, s)
    \/ \E h \in Handlers, s \in SessionIds, ok \in BOOLEAN : Delete(h, s, ok)
    \/ Restart

Spec == Init /\ [][Next]_vars

(***************************************************************************)
(* The intent pre-filter on its own: one thread serves requests whose      *)
(* messages range over every message of the model.                         *)
(***************************************************************************)
AllMessages ==
    {msg_hello, msg_Hi_there, msg_good_morning, msg_thanks, msg_thank_you,
     msg_bye, msg_see_you, msg_help, msg_what_can_you_do, msg_who_are_you,
     msg_introduce, msg_how_does_this_work, msg_ttyl, msg_hello_thanks,
     msg_bye_help, msg_role, msg_james, msg_pizza, msg_blank}

NextIntent ==
    \/ \E text \in AllMessages : ChatBegin(1, "10.0.0.1", "Mozilla/5.0", text)
    \/ \E ok \in BOOLEAN : Completion(1, ok)
    \/ Log43(1)
    \/ Log44(1)
    \/ Log55(1)
    \/ Log63(1)
    \/ Log64(1)
    \/ Log65(1)
    \/ Save80(1)
    \/ Save81(1)
    \/ Save84(1)
    \/ \E ok \in BOOLEAN : Save93(1, ok)
    \/ \E ok \in BOOLEAN : Save94(1, ok)
    \/ Respond(1)

SpecIntent == Init /\ [][NextIntent]_vars

(***************************************************************************)
(* The lexical matcher over several knowledge sets: one thread serves      *)
(* /chat requests while another reads and deletes the caller's session.    *)
(***************************************************************************)
msg_is == <<"i","s">>  \* 'is'
msg_What == <<"W","h","a","t">>  \* 'What'

MatchMessages ==
    {msg_role, msg_james, msg_is, msg_What, msg_pizza, msg_blank, msg_Hi_there}

\* The entry load_qa returns when james_qa.json cannot be read.
PlaceholderQA ==
    << [question |-> q_who, answer |-> "James Bell is a Concierge Security Engineer 3 & Team Lead at Arctic Wolf."] >>

\* What load_qa can return: no entry (a JSON object without the list), the
\* placeholder, the entries of the file in either order.
KnowledgeSets ==
    {<<>>, PlaceholderQA, DefaultQA, <<DefaultQA[2], DefaultQA[1]>>}

InitMatch ==
    /\ client \in BOOLEAN
    /\ qa_pairs \in KnowledgeSets
    /\ today \in Days
    /\ conversations = <<>>
    /\ files = <<>>
    /\ analytics_data = FreshAnalytics
    /\ req = [h \in Handlers |-> Idle]
    /\ started = 0
    /\ hist = [s \in SessionIds |-> FreshHistory]
    /\ qa_embeddings = <<>>
    /\ sem = [t \in SemThreads |-> SemIdle]

NextMatch ==
    \/ \E text \in MatchMessages : ChatBegin(1, "10.0.0.1", "Mozilla/5.0", text)
    \/ \E ok \in BOOLEAN : Completion(1, ok)
    \/ Log43(1)
    \/ Log44(1)
    \/ Log55(1)
    \/ Log63(1)
    \/ Log64(1)
    \/ Log65(1)
    \/ Save80(1)
    \/ Save81(1)
    \/ Save84(1)
    \/ \E ok \in BOOLEAN : Save93(1, ok)
    \/ \E ok \in BOOLEAN : Save94(1, ok)
    \/ \E h \in Handlers : Respond(h)
    \/ Get(2, get_session_id("10.0.0.1", "Mozilla/5.0", today))
    \/ \E ok \in BOOLEAN : Delete(2, get_session_id("10.0.0.1", "Mozilla/5.0", today), ok)

SpecMatch == InitMatch /\ [][NextMatch]_vars

(***************************************************************************)
(* Session identifiers across midnight: two threads serve requests of      *)
(* callers with and without a user agent while the date changes.           *)
(***************************************************************************)
\* datetime.now() passes midnight.
Midnight ==
    /\ today = "20261105"
    /\ today' = "20261106"
    /\ UNCHANGED <<client, qa_pairs, qa_embeddings, sem, conversations, files, analytics_data, req, started, hist>>

NextSession ==
    \/ \E h \in Handlers, ip \in IPs, ua \in AllUserAgents :
          ChatBegin(h, ip, ua, msg_pizza)
    \/ \E h \in Handlers : Log43(h)
    \/ \E h \in Handlers : Log44(h)
    \/ \E h \in Handlers : Log55(h)
    \/ \E h \in Handlers : Log63(h)
    \/ \E h \in Handlers : Log64(h)
    \/ \E h \in Handlers : Log65(h)
    \/ \E h \in Handlers : Save80(h)
    \/ \E h \in Handlers : Save81(h)
    \/ \E h \in Handlers : Save84(h)
    \/ \E h \in Handlers : Save93(h, TRUE)
    \/ \E h \in Handlers : Save94(h, TRUE)
    \/ \E h \in Handlers : Respond(h)
    \/ Midnight

SpecSession == Init /\ [][NextSession]_vars

(***************************************************************************)
(* app.py, the semantic variant: the embeddings of the knowledge entries   *)
(* are computed at import and, when that failed, by the first request that *)
(* finds them missing.  One step per call to a provider and per read or    *)
(* write of qa_embeddings.                                                 *)
(***************************************************************************)
MaxAsks == 3
batch_size == 64

\* A knowledge set of n entries, told apart by their number.
Entries(n) == [e \in 1..n |-> [question |-> e, answer |-> e]]

\* The knowledge sets app.py is started with: none, fewer entries than a
\* request retrieves, more than one batch.
SemanticSets == {Entries(0), Entries(3), Entries(64), Entries(65), Entries(129)}

Queries == {"current role", "hobbies"}

\* qa_corpus = [f"Q: {item['question']}\nA: {item['answer']}" for item in qa_pairs]
qa_corpus == [e \in 1..Len(qa_pairs) |-> [Q |-> qa_pairs[e].question, A |-> qa_pairs[e].answer]]

\* The embedding provider: the vector it answers for a text.  Vectors have two
\* integer components; those of the entries recur with period 15 and include
\* the null vector, equal directions and opposite directions.
EmbeddingOf(text) ==
    IF "Q" \in DOMAIN text
    THEN <<(text.Q % 5) - 2, (text.Q % 3) - 1>>
    ELSE IF text.query = "current role" THEN <<1, 0>> ELSE <<1, 1>>

Min(a, b) == IF a <= b THEN a ELSE b

\* The slice taken one text too long: texts[i : i + batch_size + 1].
Batch_OneMore(texts, i) == SubSeq(texts, i + 1, Min(i + batch_size + 1, Len(texts)))

\* batch = texts[i : i + batch_size], and the vectors resp.data holds for it
Batch(texts, i) == SubSeq(texts, i + 1, Min(i + batch_size, Len(texts)))

BatchVectors(texts, i) ==
    [j \in 1..Len(Batch(texts, i)) |-> EmbeddingOf(Batch(texts, i)[j])]

\* An exception leaves chat_endpoint of app.py, which catches none.
Failed(r) ==
    [r EXCEPT !.pc = "done", !.outcome = "error", !.embeddings = <<>>, !.i = 0,
              !.query_emb = None, !.top_items = None]

\* The loop appending to qa_embeddings itself instead of a local list: what
\* was embedded before a failure stays.
EmbedBatch_IntoGlobal(t, ok) ==
    /\ sem[t].pc = "compute"
    /\ sem[t].i < Len(qa_corpus)
    /\ sem' = [sem EXCEPT ![t] =
                  LET r == [sem[t] EXCEPT
                               !.batches = Append(@, Batch(qa_corpus, sem[t].i)),
                               !.corpus_calls = @ + 1]
                  IN  IF ok
                      THEN [r EXCEPT
                               !.embeddings = @ \o BatchVectors(qa_corpus, sem[t].i),
                               !.i = @ + batch_size]
                      ELSE IF t = 0 THEN [SemIdle EXCEPT !.pc = "up"]
                      ELSE Failed(r)]
    /\ qa_embeddings' = IF ok THEN sem[t].embeddings \o BatchVectors(qa_corpus, sem[t].i)
                        ELSE sem[t].embeddings
    /\ UNCHANGED <<client, qa_pairs, today, conversations, files, analytics_data, req,
                   started, hist>>

\* One turn of the loop of compute_embeddings: client.embeddings.create for
\* the next batch.  At import the exception is caught (lines 108-110): the
\* process is up with qa_embeddings == [].
EmbedBatch(t, ok) ==
    /\ sem[t].pc = "compute"
    /\ sem[t].i < Len(qa_corpus)
    /\ sem' = [sem EXCEPT ![t] =
                  LET r == [sem[t] EXCEPT
                               !.batches = Append(@, Batch(qa_corpus, sem[t].i)),
                               !.corpus_calls = @ + 1]
                  IN  IF ok
                      THEN [r EXCEPT
                               !.embeddings = @ \o BatchVectors(qa_corpus, sem[t].i),
                               !.i = @ + batch_size]
                      ELSE IF t = 0 THEN [SemIdle EXCEPT !.pc = "up"]
                      ELSE Failed(r)]
    /\ UNCHANGED <<client, qa_pairs, today, conversations, files, analytics_data, req,
                   started, hist, qa_embeddings>>

\* compute_embeddings returns and its result is assigned: qa_embeddings = ...
EmbedReturn(t) ==
    /\ sem[t].pc = "compute"
    /\ sem[t].i >= Len(qa_corpus)
    /\ qa_embeddings' = sem[t].embeddings
    /\ sem' = [sem EXCEPT ![t] =
                  IF t = 0 THEN [SemIdle EXCEPT !.pc = "up"]
                  ELSE [sem[t] EXCEPT !.pc = "query", !.embeddings = <<>>, !.i = 0]]
    /\ UNCHANGED <<client, qa_pairs, today, conversations, files, analytics_data, req,
                   started, hist>>

\* retrieve_relevant_qa without the `if not qa_embeddings` test: every
\* request computes the embeddings of the corpus.
Ask_AlwaysComputes(h, query) ==
    /\ sem[0].pc = "up"
    /\ sem[h].pc = "idle"
    /\ started < MaxAsks
    /\ started' = started + 1
    /\ sem' = [sem EXCEPT ![h] =
                  [SemIdle EXCEPT
                      !.query = query,
                      !.ready_at_check = (qa_embeddings # <<>>),
                      !.pc = "compute"]]
    /\ UNCHANGED <<client, qa_pairs, today, conversations, files, analytics_data, req,
                   hist, qa_embeddings>>

\* POST /chat up to `if not qa_embeddings:` of retrieve_relevant_qa.
Ask(h, query) ==
    /\ sem[0].pc = "up"
    /\ sem[h].pc = "idle"
    /\ started < MaxAsks
    /\ started' = started + 1
    /\ sem' = [sem EXCEPT ![h] =
                  [SemIdle EXCEPT
                      !.query = query,
                      !.ready_at_check = (qa_embeddings # <<>>),
                      !.pc = IF qa_embeddings = <<>> THEN "compute" ELSE "query"]]
    /\ UNCHANGED <<client, qa_pairs, today, conversations, files, analytics_data, req,
                   hist, qa_embeddings>>

\* client.embeddings.create(model=embed_model, input=[query])
QueryEmbed(h, ok) ==
    /\ sem[h].pc = "query"
    /\ sem' = [sem EXCEPT ![h] =
                  IF ok
                  THEN [sem[h] EXCEPT
                           !.query_emb = Some(EmbeddingOf([query |-> sem[h].query])),
                           !.pc = "score"]
                  ELSE Failed(sem[h])]
    /\ UNCHANGED <<client, qa_pairs, today, conversations, files, analytics_data, req,
                   started, hist, qa_embeddings>>

Dot(a, b) == a[1] * b[1] + a[2] * b[2]

\* cosine_similarity(a, b), kept exact: the value is c * |c| for the cosine c,
\* as a fraction with a positive denominator, which orders as c does.
cosine_similarity(a, b) ==
    IF Dot(a, a) = 0 \/ Dot(b, b) = 0 THEN [num |-> 0, den |-> 1]
    ELSE [num |-> IF Dot(a, b) >= 0 THEN Dot(a, b) * Dot(a, b)
                  ELSE 0 - Dot(a, b) * Dot(a, b),
          den |-> Dot(a, a) * Dot(b, b)]

\* x[0] > y[0] for two similarities.
Greater(x, y) == x.num * y.den > y.num * x.den

\* scored after the loop over zip(qa_pairs, qa_embeddings)
Scored(query_emb, pairs, embeddings) ==
    <<>> \o [e \in 1..Min(Len(pairs), Len(embeddings)) |->
                [score |-> cosine_similarity(query_emb, embeddings[e]), item |-> pairs[e]]]

\* The sort without reverse=True.
SortedAscending(scored) ==
    LET place == <<>> \o [e \in 1..Len(scored) |->
                    1 + Cardinality({f \in 1..Len(scored) :
                                      \/ Greater(scored[e].score, scored[f].score)
                                      \/ /\ f < e
                                         /\ ~Greater(scored[f].score, scored[e].score)})]
    IN  [p \in 1..Len(scored) |-> scored[CHOOSE e \in 1..Len(scored) : place[e] = p]]

\* scored.sort(key=lambda x: x[0], reverse=True): the sort is stable, so an
\* element comes after those of a greater score and after the earlier ones of
\* an equal score.
SortedDescending(scored) ==
    LET place == <<>> \o [e \in 1..Len(scored) |->
                    1 + Cardinality({f \in 1..Len(scored) :
                                      \/ Greater(scored[f].score, scored[e].score)
                                      \/ /\ f < e
                                         /\ ~Greater(scored[e].score, scored[f].score)})]
    IN  [p \in 1..Len(scored) |-> scored[CHOOSE e \in 1..Len(scored) : place[e] = p]]

\* retrieve_relevant_qa after the query embedding: the loop, the sort, the
\* slice scored[:k] (k >= 0) and the items of the slice.
TopItems(query_emb, pairs, embeddings, k) ==
    LET sorted == SortedDescending(Scored(query_emb, pairs, embeddings))
    IN  [p \in 1..Min(k, Len(sorted)) |-> sorted[p].item]

\* relevant = retrieve_relevant_qa(user_query, k=6): lines 128-135
Score(h) ==
    /\ sem[h].pc = "score"
    /\ sem' = [sem EXCEPT ![h].top_items =
                  Some(TopItems(sem[h].query_emb[1], qa_pairs, qa_embeddings, 6)),
                           ![h].pc = "generate"]
    /\ UNCHANGED <<client, qa_pairs, today, conversations, files, analytics_data, req,
                   started, hist, qa_embeddings>>

\* client.chat.completions.create(...) of generate_answer and the reply
Generate(h, ok) ==
    /\ sem[h].pc = "generate"
    /\ sem' = [sem EXCEPT ![h] =
                  IF ok THEN [sem[h] EXCEPT !.pc = "done", !.outcome = "reply"]
                  ELSE Failed(sem[h])]
    /\ UNCHANGED <<client, qa_pairs, today, conversations, files, analytics_data, req,
                   started, hist, qa_embeddings>>

\* The response (or the error) is handed back; the thread is free again.
SemRespond(h) ==
    /\ sem[h].pc = "done"
    /\ sem' = [sem EXCEPT ![h] = SemIdle]
    /\ UNCHANGED <<client, qa_pairs, today, conversations, files, analytics_data, req,
                   started, hist, qa_embeddings>>

\* The import of app.py has reached line 103: qa_embeddings = [], and the
\* precomputation of line 106 is about to start.
InitSemantic ==
    /\ client = TRUE
    /\ qa_pairs \in SemanticSets
    /\ today \in Days
    /\ conversations = <<>>
    /\ files = <<>>
    /\ analytics_data = FreshAnalytics
    /\ req = [h \in Handlers |-> Idle]
    /\ started = 0
    /\ hist = [s \in SessionIds |-> FreshHistory]
    /\ qa_embeddings = <<>>
    /\ sem = [t \in SemThreads |-> IF t = 0 THEN [SemIdle EXCEPT !.pc = "compute"] ELSE SemIdle]

NextSemantic ==
    \/ \E t \in SemThreads, ok \in BOOLEAN : EmbedBatch(t, ok)
    \/ \E t \in SemThreads : EmbedReturn(t)
    \/ \E h \in Handlers, query \in Queries : Ask(h, query)
    \/ \E h \in Handlers, ok \in BOOLEAN : QueryEmbed(h, ok)
    \/ \E h \in Handlers : Score(h)
    \/ \E h \in Handlers, ok \in BOOLEAN : Generate(h, ok)
    \/ \E h \in Handlers : SemRespond(h)

SpecSemantic == InitSemantic /\ [][NextSemantic]_vars

(***************************************************************************)
(* The analytics counters: chat_endpoint with the count of the interaction *)
(* (line 337) and the append of the chat event (line 346) as the separate  *)
(* statements they are, the pages that count visits, and GET /analytics.   *)
(***************************************************************************)
MaxVisits == 2

\* chat_endpoint, lines 335-337: the session id, then
\* analytics_data["chat_interactions"] += 1
ChatCount(h, ip, ua, text) ==
    /\ Quiet
    /\ req[h].pc = "idle"
    /\ started < MaxChats
    /\ started' = started + 1
    /\ analytics_data' = [analytics_data EXCEPT !.chat_interactions = @ + 1]
    /\ req' = [req EXCEPT ![h] =
                  [Idle EXCEPT !.op = "chat", !.ip = ip, !.user_agent = ua,
                               !.session_id = get_session_id(ip, ua, today),
                               !.day = today,
                               !.message = text,
                               !.pc = "chat346"]]
    /\ UNCHANGED <<client, qa_pairs, qa_embeddings, sem, today, conversations, files>>
    /\ Track({})

\* The chat event appended only once the client is known to be set.
ChatEvent_WhenAvailable(h) ==
    /\ Quiet
    /\ req[h].pc = "chat346"
    /\ analytics_data' = [analytics_data EXCEPT
                             !.chat_sessions = IF client THEN @ + 1 ELSE @]
    /\ LET route == Route(client, qa_pairs, req[h].message)
       IN  req' = [req EXCEPT ![h] =
                      [req[h] EXCEPT !.reply = route.reply,
                                     !.terminal = route.terminal,
                                     !.retrieval_calls = route.retrieval,
                                     !.best = route.best,
                                     !.context = route.context,
                                     !.pc = route.next]]
    /\ UNCHANGED <<client, qa_pairs, qa_embeddings, sem, today, conversations, files,
                   started>>
    /\ Track({})

\* chat_endpoint, lines 338-346 and on to its first call other threads can
\* interleave with: analytics_data["chat_sessions"].append(chat_session),
\* then the routing.
ChatEvent(h) ==
    /\ Quiet
    /\ req[h].pc = "chat346"
    /\ analytics_data' = [analytics_data EXCEPT !.chat_sessions = @ + 1]
    /\ LET route == Route(client, qa_pairs, req[h].message)
       IN  req' = [req EXCEPT ![h] =
                      [req[h] EXCEPT !.reply = route.reply,
                                     !.terminal = route.terminal,
                                     !.retrieval_calls = route.retrieval,
                                     !.best = route.best,
                                     !.context = route.context,
                                     !.pc = route.next]]
    /\ UNCHANGED <<client, qa_pairs, qa_embeddings, sem, today, conversations, files,
                   started>>
    /\ Track({})

\* GET /: serve_portfolio counts the page view and appends the visitor.
serve_portfolio ==
    /\ Quiet
    /\ analytics_data.visitors < MaxVisits
    /\ analytics_data' = [analytics_data EXCEPT !.page_views = @ + 1,
                                                !.visitors = @ + 1]
    /\ UNCHANGED <<client, qa_pairs, qa_embeddings, sem, today, conversations, files,
                   req, started, hist>>

\* GET /chat.html: serve_chat appends the visitor and counts nothing.
serve_chat ==
    /\ Quiet
    /\ analytics_data.visitors < MaxVisits
    /\ analytics_data' = [analytics_data EXCEPT !.visitors = @ + 1]
    /\ UNCHANGED <<client, qa_pairs, qa_embeddings, sem, today, conversations, files,
                   req, started, hist>>

\* GET /resume: download_resume counts the download and appends the visitor.
download_resume ==
    /\ Quiet
    /\ analytics_data.visitors < MaxVisits
    /\ analytics_data' = [analytics_data EXCEPT !.resume_downloads = @ + 1,
                                                !.visitors = @ + 1]
    /\ UNCHANGED <<client, qa_pairs, qa_embeddings, sem, today, conversations, files,
                   req, started, hist>>

RECURSIVE SumOfTotals(_)
\* sum(conv["total_messages"] for conv in conversations.values())
SumOfTotals(ids) ==
    IF ids = {} THEN 0
    ELSE LET s == CHOOSE id \in ids : TRUE
         IN  conversations[s].total_messages + SumOfTotals(ids \ {s})

\* What GET /analytics returns: the summary, and the lists by their lengths
\* (visitors[-10:], chat_sessions[-5:]).
analytics_report ==
    [total_page_views |-> analytics_data.page_views,
     total_chat_interactions |-> analytics_data.chat_interactions,
     total_resume_downloads |-> analytics_data.resume_downloads,
     total_visitors |-> analytics_data.visitors,
     total_conversation_sessions |-> Cardinality(DOMAIN conversations),
     total_conversation_turns |-> SumOfTotals(DOMAIN conversations),
     recent_visitors |-> Min(analytics_data.visitors, 10),
     recent_chats |-> Min(analytics_data.chat_sessions, 5)]

\* GET /analytics: reads, and writes nothing.
get_analytics(h) ==
    /\ Quiet
    /\ req[h].pc = "idle"
    /\ req' = [req EXCEPT ![h] =
                  [Idle EXCEPT !.op = "analytics",
                               !.result = Some(analytics_report),
                               !.pc = "done"]]
    /\ UNCHANGED <<client, qa_pairs, qa_embeddings, sem, today, conversations, files,
                   analytics_data, started, hist>>

\* One caller chats; the pages are visited, the report is read, the
\* conversation is deleted and the process restarted at any moment.
NextAnalytics ==
    \/ \E h \in Handlers, text \in ChatMessages :
          ChatCount(h, "10.0.0.1", "Mozilla/5.0", text)
    \/ \E h \in Handlers : ChatEvent(h)
    \/ \E h \in Handlers, ok \in BOOLEAN : Completion(h, ok)
    \/ \E h \in Handlers : Log43(h)
    \/ \E h \in Handlers : Log44(h)
    \/ \E h \in Handlers : Log55(h)
    \/ \E h \in Handlers : Log63(h)
    \/ \E h \in Handlers : Log64(h)
    \/ \E h \in Handlers : Log65(h)
    \/ \E h \in Handlers : Save80(h)
    \/ \E h \in Handlers : Save81(h)
    \/ \E h \in Handlers : Save84(h)
    \/ \E h \in Handlers : Save93(h, TRUE)
    \/ \E h \in Handlers : Save94(h, TRUE)
    \/ \E h \in Handlers : Respond(h)
    \/ serve_portfolio
    \/ serve_chat
    \/ download_resume
    \/ \E h \in Handlers : get_analytics(h)
    \/ \E h \in Handlers : Delete(h, get_session_id("10.0.0.1", "Mozilla/5.0", today), TRUE)
    \/ Restart

SpecAnalytics == Init /\ [][NextAnalytics]_vars

(***************************************************************************)
(* Properties.                                                             *)
(***************************************************************************)
\* The thread holds the response of a finished POST /chat.
ChatDone(h) == req[h].pc = "done" /\ req[h].op = "chat"

\* No request is in flight.
AllIdle == \A h \in Handlers : req[h].pc = "idle"

\* No log_conversation call for the session is running.
SessionQuiet(s) == \A h \in Handlers : ~InLog(req[h], s)

Turns(session) == session.conversation_turns

\* C1: every POST /chat, whatever terminal state it reaches, has appended
\* its (user message, reply) pair as a turn to the caller's session before the
\* reply is returned -- also when the completion client is unset.
C1_EveryReplyLogged ==
    \A h \in Handlers : ChatDone(h) => req[h].reply \in req[h].logged

\* The in-memory session holds exactly the turns of the calls counted for it,
\* numbered 1..N in order.
NumberedTurns(s) ==
    IF hist[s].calls = 0 THEN s \notin DOMAIN conversations
    ELSE /\ s \in DOMAIN conversations
         /\ Len(Turns(conversations[s])) = hist[s].calls
         /\ \A i \in 1..Len(Turns(conversations[s])) :
               Turns(conversations[s])[i].turn_number = i

\* C2 as claimed: after any N log_conversation calls for a session with no
\* delete in between, the in-memory turn list has length N and turn numbers
\* 1..N in order.
C2_AnyCalls ==
    \A s \in SessionIds :
        SessionQuiet(s) /\ ~hist[s].cut => NumberedTurns(s)

\* C2, state part: the same after N calls none of which ran at the same time
\* as another call for the session.
C2_NumberedAfterSeparateCalls ==
    \A s \in SessionIds :
        SessionQuiet(s) /\ ~hist[s].cut /\ ~hist[s].overlap => NumberedTurns(s)

IsPrefix(a, b) == Len(a) <= Len(b) /\ SubSeq(b, 1, Len(a)) = a

\* C2, step part: a step of such a call leaves the turns already appended
\* where and as they are.
C2_KeepsTurns ==
    \A s \in SessionIds :
        /\ s \in DOMAIN conversations
        /\ \E h \in Handlers :
              InLog(req[h], s) /\ req'[h].pc # req[h].pc /\ req'[h].op = "chat"
        /\ ~hist'[s].cut /\ ~hist'[s].overlap
        => /\ s \in DOMAIN conversations'
           /\ IsPrefix(Turns(conversations[s]), Turns(conversations'[s]))

\* C2 (amended): after N log_conversation calls for one session_id, with no
\* delete in between and none of them overlapping another call for that
\* session, the in-memory turn list has length N and turn numbers 1..N in
\* order, and no step of such a call changes or removes an earlier turn.
C2_AppendOnly == []C2_NumberedAfterSeparateCalls /\ [][C2_KeepsTurns]_vars

\* Two separate calls have been recorded for a session.
C2_Witness ==
    \E s \in SessionIds :
        /\ SessionQuiet(s) /\ ~hist[s].cut /\ ~hist[s].overlap
        /\ hist[s].calls = 2
        /\ s \in DOMAIN conversations

\* The file of the session holds a record (it exists and is valid JSON).
HasRecord(s) == s \in DOMAIN files /\ files[s] # TRUNCATED

Last(seq) == seq[Len(seq)]

\* C3: whenever no request is in flight, the durable record of every session
\* held in memory has the same turns as the in-memory session, also after an
\* earlier durable write failed or the file was absent while memory held
\* turns.  Stated for calls that ran one after the other in one process, and
\* for the sessions whose latest turn did reach the file.
C3_DurableMirrorsMemory ==
    AllIdle =>
        \A s \in DOMAIN conversations :
            /\ ~hist[s].overlap /\ ~hist[s].cut /\ ~hist[s].stale
            /\ Turns(conversations[s]) # <<>>
            /\ HasRecord(s)
            /\ Turns(files[s]) # <<>>
            /\ Last(Turns(files[s])) = Last(Turns(conversations[s]))
            => Turns(files[s]) = Turns(conversations[s])

\* Memory and disk agree on the session: both lack it, or both hold the same
\* turns.
Mirrored(s) ==
    IF s \in DOMAIN conversations
    THEN HasRecord(s) /\ Turns(files[s]) = Turns(conversations[s])
    ELSE s \notin DOMAIN files

\* C4: two log_conversation calls for the same session that interleave their
\* read-merge-write of the file can lose an update.  An update is lost only
\* that way: while no call for the session overlapped another call or a
\* delete, and no write, removal or restart went wrong, the file mirrors the
\* memory whenever no call is running; C4_LostUpdate is the state the claim
\* names.
C4_LostOnlyByInterleaving ==
    \A s \in SessionIds :
        /\ SessionQuiet(s)
        /\ ~hist[s].overlap /\ ~hist[s].cut /\ ~hist[s].fault /\ ~hist[s].stale
        => Mirrored(s)

\* Both calls have finished, nothing failed; memory holds both turns, the file
\* only one of them.
C4_LostUpdate ==
    \E s \in DOMAIN conversations :
        /\ AllIdle
        /\ hist[s].overlap /\ ~hist[s].cut /\ ~hist[s].fault /\ ~hist[s].stale
        /\ hist[s].calls = 2
        /\ Len(Turns(conversations[s])) = 2
        /\ HasRecord(s)
        /\ Len(Turns(files[s])) = 1
        /\ \E i \in 1..2 : Turns(files[s])[1] = Turns(conversations[s])[i]

\* The thread holds the response of a finished DELETE.
DeleteDone(h) == req[h].pc = "done" /\ req[h].op = "delete"

C6_SuccessIffExisted ==
    \A h \in Handlers :
        DeleteDone(h) /\ req[h].result # Some(DeleteFailed)
        => (req[h].result = Some(Deleted)
              <=> (req[h].pre[1].in_memory \/ req[h].pre[1].on_disk))

\* The thread holds the response of a finished GET.
GetDone(h) == req[h].pc = "done" /\ req[h].op = "get"

\* C7 as claimed: get returns the in-memory session when there is one,
\* otherwise the durable record when the file exists, otherwise absent.
C7_ThreeOutcomes ==
    \A h \in Handlers :
        GetDone(h) =>
            LET s == req[h].session_id
            IN  req[h].result =
                    Some(IF s \in DOMAIN conversations THEN conversations[s]
                         ELSE IF s \in DOMAIN files THEN files[s]
                         ELSE NotFound)

\* C7, result: memory first, then the file -- its record if it loads, an
\* error result if it does not -- then absent.
C7_Result ==
    \A h \in Handlers :
        GetDone(h) =>
            LET s == req[h].session_id
            IN  req[h].result =
                    Some(IF s \in DOMAIN conversations THEN conversations[s]
                         ELSE IF s \in DOMAIN files
                              THEN IF files[s] = TRUNCATED
                                   THEN [error |-> "Failed to load conversation"]
                                   ELSE files[s]
                         ELSE [error |-> "Conversation not found"])

\* C7, frame: a get changes neither the session map nor the files.
C7_Frame ==
    (\E h \in Handlers : req[h].pc = "idle" /\ req'[h].pc = "done" /\ req'[h].op = "get")
    => conversations' = conversations /\ files' = files

\* C7 (amended): get returns the in-memory session when one exists;
\* otherwise, when the session file exists, the durable record if it can be
\* loaded and a "Failed to load conversation" error result if it cannot;
\* otherwise the absent outcome.  It never changes the session map or the
\* files.
C7_GetReadsMemoryThenFile == []C7_Result /\ [][C7_Frame]_vars

\* A get has fallen back to the durable record.
C7_Witness ==
    \E h \in Handlers :
        /\ GetDone(h)
        /\ req[h].session_id \notin DOMAIN conversations
        /\ HasRecord(req[h].session_id)
        /\ req[h].result = Some(files[req[h].session_id])

\* The lowercased, trimmed text contains a greeting pattern and no thanks,
\* goodbye, help or identity pattern.
GreetingOnly(text) ==
    LET message == strip(lower(text))
    IN  /\ AnyPattern(greeting_patterns, message)
        /\ ~AnyPattern(thanks_patterns, message)
        /\ ~AnyPattern(goodbye_patterns, message)
        /\ ~AnyPattern(help_patterns, message)
        /\ ~AnyPattern(who_patterns, message)

\* C8 as claimed: a greeting-only message always receives the greeting canned
\* reply and never reaches retrieval, in every system state, the completion
\* client being unset included.
C8_GreetingInEveryState ==
    \A h \in Handlers :
        ChatDone(h) /\ GreetingOnly(req[h].message)
        => req[h].reply = "greeting_response" /\ req[h].retrieval_calls = 0

\* With the client set, every greeting-only message of the model is routed to
\* the greeting reply, without retrieval.
GreetingOnlyRoutes ==
    \A text \in AllMessages :
        GreetingOnly(text)
        => LET route == Route(TRUE, DefaultQA, text)
           IN  route.reply = "greeting_response" /\ route.retrieval = 0

\* C8 (amended): while the completion client is set, a greeting-only message
\* never reaches retrieval or the completion call, and receives the greeting
\* canned reply -- or the generic error reply when recording the turn raised
\* (the session was deleted under the recording call).
C8_GreetingWhenClientSet ==
    /\ \A h \in Handlers :
          ChatDone(h) /\ client /\ GreetingOnly(req[h].message)
          => /\ req[h].retrieval_calls = 0
             /\ req[h].completion_calls = 0
             /\ req[h].reply = IF req[h].in_except THEN error_response
                               ELSE "greeting_response"
    /\ GreetingOnlyRoutes

\* A greeting-only message has been answered with the client set and the turn
\* recorded.
C8_Witness ==
    \E h \in Handlers :
        /\ ChatDone(h) /\ client
        /\ GreetingOnly(req[h].message)
        /\ req[h].reply = "greeting_response"
        /\ req[h].logged # {}

\* The categories one of whose patterns occurs in the message.
Matching(message) == {c \in Categories : AnyPattern(PatternsOf(c), message)}

\* Every order in which the five categories can be checked.
Orders ==
    {o \in [1..5 -> Categories] : \A i, j \in 1..5 : o[i] = o[j] => i = j}

UnavailableRoutes ==
    \A text \in AllMessages :
        LET route == Route(FALSE, DefaultQA, text)
        IN  /\ route.reply = "AI assistant is currently unavailable"
            /\ route.retrieval = 0
            /\ route.next = "done"

\* C10: with the completion client not configured, every /chat request
\* returns the fixed unavailable reply whatever the message, and neither
\* retrieval nor the completion call is made.
C10_UnavailableWithoutClient ==
    /\ \A h \in Handlers :
          ChatDone(h) /\ ~client
          => /\ req[h].reply = "AI assistant is currently unavailable"
             /\ req[h].terminal = "Unavailable"
             /\ req[h].retrieval_calls = 0
             /\ req[h].completion_calls = 0
    /\ \A h \in Handlers :
          ~client => req[h].pc \in {"idle", "done"}
    /\ UnavailableRoutes

\* Without a client, a message that matches a knowledge entry has been
\* answered with the unavailable reply.
C10_Witness ==
    \E h \in Handlers :
        /\ ChatDone(h) /\ ~client
        /\ req[h].message = msg_role
        /\ BestMatch(qa_pairs, strip(lower(msg_role))).best_score > 0
        /\ req[h].reply = UnavailableReply

\* The lowercase words the entry's question shares with the message.
SharedWords(entry, message) ==
    {w \in set(split(lower(entry.question))) : w \in set(split(message))}

\* At least one knowledge entry's question shares a word with the message.
SharesWord(qa, message) ==
    \E i \in 1..Len(qa) : SharedWords(qa[i], message) # {}

Scores(qa, message) ==
    [i \in 1..Len(qa) |-> Cardinality(SharedWords(qa[i], message))]

MaxScore(qa, message) ==
    IF qa = <<>> THEN 0
    ELSE CHOOSE x \in {Scores(qa, message)[i] : i \in 1..Len(qa)} :
            \A i \in 1..Len(qa) : Scores(qa, message)[i] <= x

\* C12: the matcher's score is the maximum over the entries of the number of
\* words shared by the message and the entry's question, and the selected
\* entry is the first in knowledge-base order that attains it (no entry is
\* selected when the maximum is 0).
C12_BestIsFirstMaximum ==
    \A h \in Handlers :
        ChatDone(h) /\ req[h].best # None =>
            LET message == strip(lower(req[h].message))
                scores == Scores(qa_pairs, message)
                max == MaxScore(qa_pairs, message)
                result == req[h].best[1]
            IN  /\ result.best_score = max
                /\ IF max = 0 THEN result.best_match = None
                   ELSE \E i \in 1..Len(qa_pairs) :
                           /\ scores[i] = max
                           /\ \A j \in 1..(i - 1) : scores[j] < max
                           /\ result.best_match = Some(qa_pairs[i])

\* Two entries tie on a positive score and the first has been selected.
C12_Witness ==
    \E h \in Handlers :
        /\ ChatDone(h) /\ req[h].best # None
        /\ Len(qa_pairs) = 2
        /\ LET scores == Scores(qa_pairs, strip(lower(req[h].message)))
           IN  scores[1] = scores[2] /\ scores[1] > 0
        /\ req[h].best[1].best_match = Some(qa_pairs[1])

\* C13 as claimed: when the completion call raised, the reply is the fixed
\* "technical difficulties" text and the request appended exactly one turn,
\* whose bot_response is that text.
C13_FailureLoggedOnce ==
    \A h \in Handlers :
        ChatDone(h) /\ "completion" \in req[h].raised
        => /\ req[h].reply = error_response
           /\ req[h].appends = 1
           /\ req[h].logged = {error_response}

\* C13 (amended): when the completion call raised, the reply is the fixed
\* "technical difficulties" text, and the request appended exactly one turn,
\* whose bot_response is that text, unless recording it raised (the session
\* was deleted under the recording call): that failure is passed over, and
\* the request appended at most one turn.
C13_FailureLoggedOnceUnlessRecordRaised ==
    \A h \in Handlers :
        ChatDone(h) /\ "completion" \in req[h].raised
        => /\ req[h].reply = error_response
           /\ req[h].completion_calls = 1
           /\ req[h].logged \subseteq {error_response}
           /\ IF "record" \in req[h].raised
              THEN req[h].appends <= 1
              ELSE req[h].appends = 1 /\ req[h].logged = {error_response}

\* The completion call raised, and the session's last turn holds the fixed
\* reply.
C13_Witness ==
    \E h \in Handlers :
        /\ ChatDone(h)
        /\ req[h].raised = {"completion"}
        /\ req[h].appends = 1
        /\ req[h].session_id \in DOMAIN conversations
        /\ Turns(conversations[req[h].session_id]) # <<>>
        /\ Last(Turns(conversations[req[h].session_id])).bot_response = error_response
        /\ Last(Turns(conversations[req[h].session_id])).user_message = req[h].message

\* The reply of the request had no durable write failed.
ReplyApartFromWrites(r) ==
    IF r.raised # {} THEN error_response
    ELSE IF r.completion_calls = 1 THEN CompletionText
    ELSE Route(client, qa_pairs, r.message).reply

\* C15, at the response: after a failed durable write the reply is the one
\* the request would have returned anyway, and its turn is in the in-memory
\* session (as long as no delete and no other recording call for the session
\* ran during the recording).
C15_AtResponse ==
    \A h \in Handlers :
        ChatDone(h) /\ req[h].write_failed
        => /\ req[h].reply = ReplyApartFromWrites(req[h])
           /\ req[h].reply \in req[h].logged
           /\ ~hist[req[h].session_id].cut /\ ~hist[req[h].session_id].overlap
              => /\ req[h].session_id \in DOMAIN conversations
                 /\ \E i \in 1..Len(Turns(conversations[req[h].session_id])) :
                       LET turn == Turns(conversations[req[h].session_id])[i]
                       IN  /\ turn.user_message = req[h].message
                           /\ turn.bot_response = req[h].reply

\* C15, at the failing step: it changes neither the reply nor the memory, and
\* does not enter the except clause of chat_endpoint.
C15_FailingStep ==
    \A h \in Handlers :
        ~req[h].write_failed /\ req'[h].write_failed
        => /\ req'[h].pc = "done"
           /\ req'[h].reply = req[h].reply
           /\ req'[h].in_except = req[h].in_except
           /\ req'[h].raised = req[h].raised
           /\ conversations' = conversations

\* C15: a durable write that fails inside the recording of a turn is
\* swallowed: the request returns the reply it would have returned had the
\* write succeeded, and the turn stays in the in-memory session.
C15_WriteFailureSwallowed == []C15_AtResponse /\ [][C15_FailingStep]_vars

\* A first turn whose file could not be opened: answered as usual, kept in
\* memory, no file.
C15_Witness ==
    \E h \in Handlers :
        /\ ChatDone(h) /\ req[h].write_failed
        /\ req[h].raised = {}
        /\ req[h].reply = fallback_response
        /\ req[h].session_id \in DOMAIN conversations
        /\ req[h].session_id \notin DOMAIN files
        /\ Len(Turns(conversations[req[h].session_id])) = 1

\* The thread is serving a /chat request.
InChat(h) == req[h].op = "chat"

\* C19: the session identifier of a request depends on the caller's IP, the
\* user agent and the calendar day only: two requests that agree on the three
\* have the same identifier, whatever they ask and whatever has been recorded
\* in between, and two requests of the same IP and user agent on different
\* days have different identifiers.
C19_SessionOfCallerAndDay ==
    \A g, h \in Handlers :
        InChat(g) /\ InChat(h)
        /\ req[g].ip = req[h].ip /\ req[g].user_agent = req[h].user_agent
        => (req[g].day = req[h].day <=> req[g].session_id = req[h].session_id)

\* A request of the day before is still being served, its session recorded,
\* when the same caller's next request arrives after midnight.
C19_Witness ==
    \E g, h \in Handlers :
        /\ InChat(g) /\ InChat(h)
        /\ req[g].ip = req[h].ip /\ req[g].user_agent = req[h].user_agent
        /\ req[g].day = "20261105" /\ req[h].day = "20261106"
        /\ req[g].session_id \in DOMAIN conversations
        /\ req[g].session_id # req[h].session_id

\* C20: in every session's durable record the turn numbers are exactly 1..M
\* in file order, after any sequence of record calls, also those made after a
\* restart emptied the memory while the file stayed.  Stated for the records
\* written by calls that ran one after the other and to their end, with no
\* delete during a call and no failed write or removal.
C20_DurableTurnsNumbered ==
    \A s \in SessionIds :
        /\ HasRecord(s)
        /\ ~hist[s].overlap /\ ~hist[s].cut /\ ~hist[s].fault /\ ~hist[s].marred
        => \A i \in 1..Len(Turns(files[s])) : Turns(files[s])[i].turn_number = i

\* The replies chat_endpoint of app_minimal.py can return.
Replies ==
    {UnavailableReply, fallback_response, error_response, CompletionText,
     "greeting_response", "thanks_response", "goodbye_response", "help_response",
     "intro_response"}

\* C14: every POST /chat request ends with a textual reply, never with an
\* error leaving the chat handler, whatever provider call fails, in the
\* lexical variant (app_minimal.py) and in the semantic variant (app.py).
C14_AlwaysTextualReply ==
    /\ \A h \in Handlers : ChatDone(h) => req[h].reply \in Replies
    /\ \A h \in Handlers : sem[h].pc = "done" => sem[h].outcome = "reply"

\* qa_embeddings holds one vector per knowledge entry, vector e being the
\* embedding of corpus text e.
Parallel ==
    /\ Len(qa_embeddings) = Len(qa_pairs)
    /\ \A e \in 1..Len(qa_pairs) : qa_embeddings[e] = EmbeddingOf(qa_corpus[e])

\* C16: in every reachable state qa_embeddings is empty or parallel to the
\* knowledge entries, whatever failed at start-up, in the middle of the
\* batches or in a lazy attempt; a request that has reached the scoring reads
\* a complete sequence.
C16_EmbeddingsParallel ==
    /\ qa_embeddings = <<>> \/ Parallel
    /\ \A h \in Handlers :
          sem[h].pc \in {"query", "score", "generate"} => Parallel
    /\ \A h \in Handlers :
          sem[h].top_items # None
          => Len(sem[h].top_items[1]) = Min(6, Len(qa_pairs))

\* A lazy attempt has failed in its second batch, after the first batch was
\* embedded: the embeddings are still not ready.
C16_Witness ==
    \E h \in Handlers :
        /\ sem[h].pc = "done" /\ sem[h].outcome = "error"
        /\ sem[h].corpus_calls = 2
        /\ Len(qa_pairs) > batch_size
        /\ qa_embeddings = <<>>

\* The provider calls compute_embeddings makes for the corpus.
BatchCount == (Len(qa_corpus) + batch_size - 1) \div batch_size

\* C17, states: the process is up after the start-up whether or not the
\* precomputation worked; a request that found the embeddings missing has
\* computed those of the whole corpus before it embeds the query and scores;
\* a request that found them ready has made no provider call for the corpus.
C17_State ==
    /\ sem[0].pc \in {"compute", "up"}
    /\ \A h \in Handlers :
          /\ sem[h].pc # "idle" => sem[0].pc = "up"
          /\ sem[h].ready_at_check => sem[h].corpus_calls = 0
          /\ ~sem[h].ready_at_check /\ sem[h].pc \in {"query", "score", "generate"}
             => sem[h].corpus_calls = BatchCount /\ (Parallel \/ qa_pairs = <<>>)

\* C17, steps: a request that arrives while the embeddings are missing
\* attempts the computation, also after an earlier attempt failed; a failed
\* attempt leaves them missing; once they are ready they are never replaced by
\* a different or an empty sequence.
C17_Step ==
    /\ \A h \in Handlers :
          sem[h].pc = "idle" /\ sem'[h].pc # "idle" /\ qa_embeddings = <<>>
          => sem'[h].pc = "compute"
    /\ \A h \in Handlers :
          sem[h].pc = "compute" /\ sem'[h].outcome = "error"
          => qa_embeddings' = qa_embeddings
    /\ qa_embeddings # <<>> => qa_embeddings' = qa_embeddings

\* C17: a failed precomputation leaves the process serving with the
\* embeddings not ready; each request that finds them missing attempts the
\* corpus embedding before it scores, and once an attempt has succeeded for a
\* non-empty knowledge set no request that comes later recomputes it.
C17_LazyRetryUntilReady == []C17_State /\ [][C17_Step]_vars

\* After a failed start-up, the first request failed in its attempt and the
\* next one made the attempt again, with success.
C17_Witness ==
    \E g, h \in Handlers :
        /\ sem[g].pc = "done" /\ sem[g].outcome = "error"
        /\ ~sem[g].ready_at_check /\ sem[g].corpus_calls >= 1
        /\ sem[g].query_emb = None
        /\ sem[h].pc = "query" /\ ~sem[h].ready_at_check
        /\ sem[h].corpus_calls = BatchCount
        /\ qa_embeddings # <<>>

\* The similarity of a knowledge entry to the query.
Similarity(query_emb, item) ==
    cosine_similarity(query_emb, EmbeddingOf([Q |-> item.question, A |-> item.answer]))

\* What C18 says of the entries retrieve returns for k.
TopK(query_emb, items, k) ==
    /\ Len(items) = Min(k, Len(qa_pairs))
    /\ \A p \in 1..Len(items) : \E e \in 1..Len(qa_pairs) : items[p] = qa_pairs[e]
    /\ \A p, q \in 1..Len(items) : p # q => items[p] # items[q]
    /\ \A p \in 1..(Len(items) - 1) :
          ~Greater(Similarity(query_emb, items[p + 1]), Similarity(query_emb, items[p]))
    /\ \A e \in 1..Len(qa_pairs) :
          (\A p \in 1..Len(items) : items[p] # qa_pairs[e])
          => \A p \in 1..Len(items) :
                ~Greater(Similarity(query_emb, qa_pairs[e]), Similarity(query_emb, items[p]))

\* The values of k tried: none, fewer than the entries, the k of
\* build_context_block, more than the entries.
Ks == {0, 2, 6, 70}

\* C18: for any query and any k >= 0 retrieve returns min(k, number of
\* entries) entries of the knowledge set, none twice, ordered by
\* non-increasing similarity, none less similar than an entry left out.
C18_RetrieveTopK ==
    \A h \in Handlers :
        /\ sem[h].pc = "score"
           => \A k \in Ks :
                 TopK(sem[h].query_emb[1],
                      TopItems(sem[h].query_emb[1], qa_pairs, qa_embeddings, k), k)
        /\ sem[h].top_items # None
           => TopK(sem[h].query_emb[1], sem[h].top_items[1], 6)

\* Six of 65 entries have been retrieved, entries of equal similarity and
\* entries of lower similarity being left out.
C18_Witness ==
    \E h \in Handlers :
        /\ sem[h].top_items # None
        /\ Len(qa_pairs) = 65
        /\ Len(sem[h].top_items[1]) = 6
        /\ \E e \in 1..Len(qa_pairs) :
              /\ \A p \in 1..6 : sem[h].top_items[1][p] # qa_pairs[e]
              /\ ~Greater(Similarity(sem[h].query_emb[1], sem[h].top_items[1][6]),
                          Similarity(sem[h].query_emb[1], qa_pairs[e]))
        /\ \E e \in 1..Len(qa_pairs) :
              Greater(Similarity(sem[h].query_emb[1], sem[h].top_items[1][6]),
                      Similarity(sem[h].query_emb[1], qa_pairs[e]))

\* The messages sent to POST /chat in any of the specifications.
Texts == ChatMessages \cup MatchMessages \cup AllMessages

\* The messages in which an intent pattern occurs.
IntentTexts ==
    UNION {IF Matching(strip(lower(text))) # {} THEN {text} ELSE {} : text \in Texts}

\* The knowledge sets and messages of which an entry shares a word with the
\* message.
SharingWord ==
    UNION {IF SharesWord(qa, strip(lower(text))) THEN {<<qa, text>>} ELSE {} :
              qa \in KnowledgeSets, text \in Texts}

\* The request is one the Matched path serves: the client is set, no intent
\* pattern occurs in the message and a knowledge entry shares a word with it.
OnMatchedPath(r) ==
    /\ client
    /\ r.message \notin IntentTexts
    /\ <<qa_pairs, r.message>> \in SharingWord

\* C21: a POST /chat request calls the completion at most once, and only on
\* the Matched path; a request answered by an intent shortcut calls neither
\* the matcher nor the completion, and a request that ends Unavailable or
\* without a match does not call the completion.
C21_CompletionOnlyWhenMatched ==
    \A h \in Handlers :
        req[h].op = "chat" =>
            /\ req[h].completion_calls <= 1
            /\ req[h].completion_calls = 1 => OnMatchedPath(req[h])
            /\ req[h].pc \notin {"idle", "completion"} /\ OnMatchedPath(req[h])
               => req[h].completion_calls = 1
            /\ client /\ req[h].message \in IntentTexts
               => req[h].retrieval_calls = 0 /\ req[h].completion_calls = 0
            /\ req[h].terminal \in {"Unavailable", "NoMatch", "Intent"}
               => req[h].completion_calls = 0

\* A request on the Matched path has finished with its one completion call,
\* while another has finished on an intent shortcut with no call at all.
C21_Witness ==
    \E g, h \in Handlers :
        /\ ChatDone(g) /\ req[g].completion_calls = 1 /\ req[g].retrieval_calls = 1
        /\ req[h].op = "chat" /\ req[h].terminal = "Intent"
        /\ req[h].retrieval_calls = 0 /\ req[h].completion_calls = 0

RECURSIVE Flatten(_)
\* The batches laid end to end.
Flatten(batches) ==
    IF batches = <<>> THEN <<>> ELSE Head(batches) \o Flatten(Tail(batches))

\* The loop of compute_embeddings has run to its end in thread t.
LoopDone(t) == sem[t].pc = "compute" /\ sem[t].i >= Len(qa_corpus)

\* C22: compute_embeddings gives the texts to the embedding provider in
\* consecutive batches of at most 64 texts, each text in exactly one batch,
\* and returns one vector per text in the order of the texts; for no text it
\* makes no call.
C22_BatchesOfAtMost64 ==
    \A t \in SemThreads :
        LET batches == sem[t].batches
            given   == Flatten(batches)
        IN  /\ \A j \in 1..Len(batches) :
                  Len(batches[j]) >= 1 /\ Len(batches[j]) <= 64
            /\ Len(given) <= Len(qa_corpus)
            /\ given = SubSeq(qa_corpus, 1, Len(given))
            /\ LoopDone(t)
               => /\ given = qa_corpus
                  /\ Len(batches) = BatchCount
                  /\ Len(sem[t].embeddings) = Len(qa_corpus)
                  /\ \A e \in 1..Len(qa_corpus) :
                        sem[t].embeddings[e] = EmbeddingOf(qa_corpus[e])
                  /\ qa_corpus = <<>> => batches = <<>> /\ sem[t].embeddings = <<>>

\* 129 texts have been embedded in three batches, of 64, 64 and 1.
C22_Witness ==
    \E t \in SemThreads :
        /\ LoopDone(t)
        /\ Len(qa_corpus) = 129
        /\ Len(sem[t].batches) = 3
        /\ Len(sem[t].batches[1]) = 64
        /\ Len(sem[t].batches[3]) = 1

\* The entry of key s in a map, or that it has none.
At(map, s) == IF s \in DOMAIN map THEN Some(map[s]) ELSE None

\* The step is one of the POST /chat request thread h serves, and of no
\* other request.
ChatStep(h) ==
    /\ req'[h].op = "chat"
    /\ req'[h] # req[h]
    /\ \A g \in Handlers \ {h} : req'[g] = req[g]

\* C23, steps: a step of a /chat request leaves the in-memory session and the
\* file of every session but the caller's as they are.
C23_OtherSessionsUntouched ==
    \A h \in Handlers :
        ChatStep(h) =>
            \A s \in SessionIds \ {req'[h].session_id} :
                /\ At(conversations', s) = At(conversations, s)
                /\ At(files', s) = At(files, s)

\* C23, states: whatever requests for other sessions are running or have
\* run, a session whose own calls did not overlap each other or a delete, and
\* whose writes did not fail, holds the turns of all its calls in memory, in
\* order, and the same turns on disk.
C23_TurnsKeptAcrossSessions ==
    \A s \in SessionIds :
        /\ SessionQuiet(s)
        /\ ~hist[s].overlap /\ ~hist[s].cut /\ ~hist[s].fault /\ ~hist[s].stale
        => /\ NumberedTurns(s)
           /\ Mirrored(s)
           /\ s \in DOMAIN conversations
              => \A i \in 1..Len(Turns(conversations[s])) :
                    /\ Turns(conversations[s])[i].bot_response # ""
                    /\ s = get_session_id(conversations[s].ip_address,
                                          conversations[s].user_agent, today)

\* C23: a /chat request changes the ledger for the caller's session only, in
\* memory and on disk, and requests for different sessions that run at the same
\* time neither lose nor alter each other's turns.
C23_OnlyOwnSession == []C23_TurnsKeptAcrossSessions /\ [][C23_OtherSessionsUntouched]_vars

\* Two requests for different sessions are inside log_conversation at the
\* same time, one about to write its file while the other has appended its
\* turn; each session holds its own turn.
C23_Witness ==
    \E g, h \in Handlers :
        /\ req[g].op = "chat" /\ req[h].op = "chat"
        /\ req[g].session_id # req[h].session_id
        /\ req[g].pc = "save93"
        /\ req[h].pc = "log64"
        /\ Len(Turns(conversations[req[g].session_id])) = 1
        /\ Len(Turns(conversations[req[h].session_id])) = 1

\* The count a session carries is the number of its turns.
Counted(session) == session.total_messages = Len(Turns(session))

\* C25 as claimed: whenever no request is in flight, total_messages of every
\* in-memory session is the length of its turn list, and total_messages of
\* every durable record is the number of turns in the record.
C25_TotalIsTurnCount ==
    AllIdle =>
        /\ \A s \in DOMAIN conversations : Counted(conversations[s])
        /\ \A s \in DOMAIN files : HasRecord(s) => Counted(files[s])

\* C25 (amended): whenever no request is in flight, total_messages of every
\* in-memory session none of whose log_conversation calls ran at the same
\* time as another call for it is the length of its turn list; total_messages
\* of every durable record is the number of turns in the record, in every
\* state.
C25_TotalIsTurnCountOfSeparateCalls ==
    /\ AllIdle =>
          \A s \in DOMAIN conversations : ~hist[s].overlap => Counted(conversations[s])
    /\ \A s \in DOMAIN files : HasRecord(s) => Counted(files[s])

\* Nothing is in flight; a session holds two turns counted 2 in memory, and
\* its record holds both, counted 2.
C25_Witness ==
    \E s \in DOMAIN conversations :
        /\ AllIdle
        /\ ~hist[s].overlap
        /\ conversations[s].total_messages = 2
        /\ HasRecord(s)
        /\ files[s].total_messages = 2

\* The step is a restart of the process: the module state is as at import.
RestartStep ==
    /\ analytics_data' = FreshAnalytics
    /\ conversations' = <<>>
    /\ req' = [h \in Handlers |-> Idle]
    /\ started' = started

\* The requests that have counted their interaction and not yet appended
\* their chat event.
BetweenCountAndEvent == {h \in Handlers : req[h].pc = "chat346"}

\* What a step does to the counters, a restart apart: each /chat request
\* that begins adds one to chat_interactions and each that passes line 346
\* adds one chat event, then goes on to its terminal state; nothing else
\* changes the two, and page_views and resume_downloads stay or grow by one;
\* a delete and a read of /analytics change no counter and no list.
C24_CountersStep ==
    ~RestartStep =>
        /\ analytics_data'.chat_interactions =
              analytics_data.chat_interactions
              + Cardinality({h \in Handlers : req[h].pc = "idle" /\ req'[h].op = "chat"})
        /\ analytics_data'.chat_sessions =
              analytics_data.chat_sessions
              + Cardinality({h \in Handlers :
                                req[h].pc = "chat346" /\ req'[h].pc # "chat346"})
        /\ \A h \in Handlers :
              req[h].pc = "chat346" /\ req'[h].pc # "chat346"
              => req'[h].terminal \in {"Unavailable", "Intent", "Matched", "NoMatch"}
        /\ analytics_data'.page_views \in
              {analytics_data.page_views, analytics_data.page_views + 1}
        /\ analytics_data'.resume_downloads \in
              {analytics_data.resume_downloads, analytics_data.resume_downloads + 1}
        /\ analytics_data'.visitors >= analytics_data.visitors
        /\ (\E h \in Handlers :
               req[h].pc = "idle" /\ req'[h].op \in {"delete", "analytics", "get"})
           => analytics_data' = analytics_data

\* A /chat request that has its reply has counted and appended.
C24_Counted ==
    \A h \in Handlers :
        req[h].op = "chat" /\ req[h].pc # "chat346"
        => analytics_data.chat_interactions >= 1 /\ analytics_data.chat_sessions >= 1

\* C24 as claimed: chat_interactions equals the number of recorded chat
\* events in every state, every /chat request adding one to each whatever its
\* terminal state, and no operation decreases or resets a counter.
C24_CountersEqualEvents ==
    /\ [](C24_Counted /\ analytics_data.chat_interactions = analytics_data.chat_sessions)
    /\ [][C24_CountersStep]_vars

\* C24 (amended): chat_interactions equals the number of recorded chat events
\* plus the number of /chat requests between the count and the append, so the
\* two are equal whenever no /chat request is between lines 337 and 346; every
\* /chat request adds one to each whatever its terminal state, and no
\* operation decreases or resets a counter.
C24_CountersEqualEventsWhenSettled ==
    /\ [](/\ C24_Counted
          /\ analytics_data.chat_interactions =
                analytics_data.chat_sessions + Cardinality(BetweenCountAndEvent))
    /\ [][C24_CountersStep]_vars

\* Two /chat requests have been counted and recorded, the page and the
\* resume were fetched, the conversation was deleted, and the report of
\* /analytics read afterwards still shows both interactions.
C24_Witness ==
    /\ analytics_data.chat_interactions = 2
    /\ analytics_data.chat_sessions = 2
    /\ analytics_data.page_views = 1
    /\ analytics_data.resume_downloads = 1
    /\ conversations = <<>>
    /\ \E h \in Handlers :
          /\ req[h].pc = "done" /\ req[h].op = "analytics"
          /\ req[h].result[1].total_chat_interactions = 2

====
